---- MODULE Spec2Model ----
(***************************************************************************)
(* The HT16K33 7-segment display driver (drivers/i2c/ht16k33_driver.go).   *)
(*                                                                         *)
(* Every driver method is a synchronous sequence of blocking bus           *)
(* transactions, so a method is one action.  The state is the chip's       *)
(* display RAM, the driver's connection, and what the last call did: its   *)
(* arguments, its result, and the transcript of the transport calls it     *)
(* made.  The transport may fail any one transaction of a call.            *)
(***************************************************************************)
EXTENDS Integers, Sequences, FiniteSets, TLC

VARIABLES
    regs,        \* the chip's display RAM: word at each even byte offset
    connection,  \* h.connection: "nil" or "open"
    call,        \* the last call: [op |-> ..., <its arguments>]
    ret,         \* what it returned: [err |-> ...] (and out for splitNumberIntoDigits)
    log          \* the transport calls it made, in order

vars == <<regs, connection, call, ret, log>>

---------------------------------------------------------------------------
(* Bounds of the model. *)

\* positions 0..MaxPos are tried (pos is a uint8; 0..3 are valid)
MaxPos == 5
\* digits -MaxNeg..MaxDigit are tried (d is an int; 0..9 are valid)
MaxDigit == 11
\* numbers -MaxNegNumber..MaxNumber are tried (n is an int; 0..9999 are
\* valid; the negative ones print as up to six characters)
MaxNumber == 10001
MaxNegNumber == 10000
MaxNeg == 2
\* the transport fails transaction number 1..MaxFail of a call, or none (0)
MaxFail == 10
\* binary strings of up to MaxBinLen repeated characters are tried
MaxBinLen == 18

---------------------------------------------------------------------------
(* Constants of the driver. *)

ht16k33Address == 112         \* 0x70

ht16k33RegSetup == 32         \* 0x20
ht16k33RegBlink == 128        \* 0x80
ht16k33RegDisplay == 128      \* 0x80
ht16k33RegBrightness == 224   \* 0xE0

ht16k33OscillatorOn == 33     \* 0x21
ht16k33DisplayOn == 1
ht16k33ColonOn == 2
ht16k33Off == 0

\* the table with rows 1 and 3 exchanged
digitSwapped ==
    [d \in 0..9 |-> <<3135, 79, 219, 6, 230, 237, 253, 7, 255, 239>>[d + 1]]

\* 0x0C3F, 0x0006, 0x00DB, 0x004F, 0x00E6, 0x00ED, 0x00FD, 0x0007, 0x00FF, 0x00EF
digit ==
    [d \in 0..9 |-> <<3135, 6, 219, 79, 230, 237, 253, 7, 255, 239>>[d + 1]]

nil == "nil"
ErrNumberTooBig == "number must be less than 10,000"
ErrDigitTooBig == "digit must be less than 10"
ErrBinaryTooBig == "value too big, maximum 65535"
ErrPositionOutOfRange == "position must be 0 - 3"

\* the errors of package strconv (a *NumError wrapping one of these)
ErrSyntax == "strconv: invalid syntax"
ErrRange == "strconv: value out of range"

\* a run-time panic of the Go runtime: the call does not return
PanicIndex == "panic: runtime error: index out of range"

\* the failures the transport may report
TransportErrors == {"bus: i/o error", "bus: timeout"}

---------------------------------------------------------------------------
(* Integer helpers at the width of the code's types. *)

Uint8(x) == x % 256
Uint16(x) == x % 65536

RECURSIVE BitOr(_, _)
BitOr(a, b) ==
    IF a = 0 THEN b
    ELSE IF b = 0 THEN a
    ELSE (IF a % 2 = 1 \/ b % 2 = 1 THEN 1 ELSE 0) + 2 * BitOr(a \div 2, b \div 2)

---------------------------------------------------------------------------
(* The transport: a connector and, once acquired, a connection.  A call    *)
(* runs against a bus record: the chip RAM, the transcript so far, and the *)
(* one transaction (by number, 0 for none) the transport fails, with the   *)
(* error it reports.  A failed transaction changes nothing on the chip.    *)

DisplayRAM == {0, 2, 4, 6, 8, 10, 12, 14}

NoFault == [at |-> 0, err |-> nil]

Bus(r, f) == [regs |-> r, log |-> <<>>, fault |-> f]

Fails(bus) == Len(bus.log) + 1 = bus.fault.at

Result(bus, e) == [bus |-> bus, err |-> e]

\* one transport call: the transcript records what the transport answered
Transact(bus, entry) ==
    LET e == IF Fails(bus) THEN bus.fault.err ELSE nil
    IN  Result([bus EXCEPT !.log = Append(@, [entry EXCEPT !.err = e])], e)

GetConnection(bus, address) ==
    Transact(bus, [kind |-> "GetConnection", val |-> address, err |-> nil])

WriteByte(bus, val) ==
    Transact(bus, [kind |-> "WriteByte", val |-> val, err |-> nil])

ReadByte(bus) ==
    Transact(bus, [kind |-> "ReadByte", err |-> nil])

WriteWordData(bus, reg, val) ==
    LET r == Transact(bus, [kind |-> "WriteWordData", reg |-> reg,
                            val |-> val, err |-> nil])
    IN  IF r.err = nil /\ reg \in DisplayRAM
        THEN Result([r.bus EXCEPT !.regs[reg] = val], nil)
        ELSE r

---------------------------------------------------------------------------
(* Package strconv and strings, as the driver uses them.  A string is the  *)
(* sequence of its characters.                                             *)

DecimalChars == <<"0", "1", "2", "3", "4", "5", "6", "7", "8", "9">>

\* strconv.Itoa
RECURSIVE ItoaNat(_)
ItoaNat(n) ==
    IF n < 10 THEN <<DecimalChars[n + 1]>>
    ELSE ItoaNat(n \div 10) \o <<DecimalChars[(n % 10) + 1]>>

Itoa(n) == IF n < 0 THEN <<"-">> \o ItoaNat(-n) ELSE ItoaNat(n)

\* strings.Split(s, ""): one string per character
Split(s) == [i \in 1..Len(s) |-> <<s[i]>>]

\* strconv.Atoi of a one-character string
Atoi(s) ==
    IF Len(s) = 1 /\ \E v \in 0..9 : DecimalChars[v + 1] = s[1]
    THEN [val |-> CHOOSE v \in 0..9 : DecimalChars[v + 1] = s[1], err |-> nil]
    ELSE [val |-> 0, err |-> ErrSyntax]

\* strconv.ParseUint(s, 2, 16): the scan from the left, which stops at the
\* first character that is no binary digit and at the first overflow
RECURSIVE ParseUintScan(_, _, _)
ParseUintScan(s, i, n) ==
    IF i > Len(s) THEN [w |-> n, err |-> nil]
    ELSE IF s[i] \notin {"0", "1"} THEN [w |-> 0, err |-> ErrSyntax]
    ELSE LET n1 == 2 * n + (IF s[i] = "1" THEN 1 ELSE 0)
         IN  IF n1 > 65535 THEN [w |-> 65535, err |-> ErrRange]
             ELSE ParseUintScan(s, i + 1, n1)

ParseUint(s) ==
    IF s = <<>> THEN [w |-> 0, err |-> ErrSyntax] ELSE ParseUintScan(s, 1, 0)

---------------------------------------------------------------------------
(* The driver's methods.  Each takes the bus and its arguments and gives   *)
(* the bus it leaves and the error it returns.                             *)

\* SetDisplay that writes the bare register whatever on is
SetDisplayIgnoresOn(bus, on) == WriteByte(bus, BitOr(ht16k33RegDisplay, ht16k33Off))

SetDisplay(bus, on) ==
    LET v == IF on THEN ht16k33DisplayOn ELSE ht16k33Off
    IN  WriteByte(bus, BitOr(ht16k33RegDisplay, v))

\* SetBrightness without the clamp
SetBrightnessNoClamp(bus, b) == WriteByte(bus, Uint8(BitOr(ht16k33RegBrightness, b)))

SetBrightness(bus, b) ==
    LET b1 == IF b > 15 THEN 15 ELSE b
    IN  WriteByte(bus, Uint8(BitOr(ht16k33RegBrightness, b1)))

\* Colon that takes the slot index for the byte offset
ColonAtSlotIndex(bus, on) ==
    LET v == IF on THEN ht16k33ColonOn ELSE ht16k33Off
    IN  WriteWordData(bus, 2, v)

Colon(bus, on) ==
    LET v == IF on THEN ht16k33ColonOn ELSE ht16k33Off
    IN  WriteWordData(bus, 4, v)

\* Clear that stops one register short
RECURSIVE ClearLoopFour(_, _)
ClearLoopFour(bus, p) ==
    IF p < 4
    THEN LET r == WriteWordData(bus, Uint8(p * 2), 0)
         IN  IF r.err # nil THEN r ELSE ClearLoopFour(r.bus, Uint8(p + 1))
    ELSE Result(bus, nil)

\* The loop of a Clear that leaves the colon register alone
RECURSIVE ClearLoopSkipsColon(_, _)
ClearLoopSkipsColon(bus, p) ==
    IF p < 5
    THEN IF p = 2 THEN ClearLoopSkipsColon(bus, Uint8(p + 1))
         ELSE LET r == WriteWordData(bus, Uint8(p * 2), 0)
              IN  IF r.err # nil THEN r ELSE ClearLoopSkipsColon(r.bus, Uint8(p + 1))
    ELSE Result(bus, nil)

RECURSIVE ClearLoop(_, _)
ClearLoop(bus, p) ==
    IF p < 5
    THEN LET r == WriteWordData(bus, Uint8(p * 2), 0)
         IN  IF r.err # nil THEN r ELSE ClearLoop(r.bus, Uint8(p + 1))
    ELSE Result(bus, nil)

Clear(bus) == ClearLoop(bus, 0)

\* WriteBinary that parses before it checks the position and forgets the shift
WriteBinaryNoSkip(bus, pos, b) ==
    LET r == ParseUint(b)
    IN  IF r.err # nil THEN Result(bus, r.err)
        ELSE IF pos > 3 THEN Result(bus, ErrPositionOutOfRange)
        ELSE WriteWordData(bus, Uint8(pos * 2), Uint16(r.w))

\* WriteBinary that writes the value's low byte only
WriteBinaryLowByte(bus, pos, b) ==
    IF pos > 3 THEN Result(bus, ErrPositionOutOfRange)
    ELSE LET pos1 == IF pos = 2 \/ pos = 3 THEN Uint8(pos + 1) ELSE pos
             r    == ParseUint(b)
         IN  IF r.err # nil THEN Result(bus, r.err)
             ELSE WriteWordData(bus, Uint8(pos1 * 2), r.w % 256)

WriteBinary(bus, pos, b) ==
    IF pos > 3 THEN Result(bus, ErrPositionOutOfRange)
    ELSE LET pos1 == IF pos = 2 \/ pos = 3 THEN Uint8(pos + 1) ELSE pos
             r    == ParseUint(b)
         IN  IF r.err # nil THEN Result(bus, r.err)
             ELSE IF r.w > 65535 THEN Result(bus, ErrBinaryTooBig)
             ELSE WriteWordData(bus, Uint8(pos1 * 2), Uint16(r.w))

\* WriteDigit whose position check is off by one
WriteDigitPosOffByOne(bus, pos, d) ==
    IF pos > 4 THEN Result(bus, ErrPositionOutOfRange)
    ELSE IF d > 9 THEN Result(bus, ErrDigitTooBig)
    ELSE LET pos1 == IF pos = 2 \/ pos = 3 THEN Uint8(pos + 1) ELSE pos
         IN  IF d < 0 THEN Result(bus, PanicIndex)
             ELSE WriteWordData(bus, Uint8(pos1 * 2), digit[d])

\* WriteDigit with the identity mapping of positions to registers
WriteDigitNoSkip(bus, pos, d) ==
    IF pos > 3 THEN Result(bus, ErrPositionOutOfRange)
    ELSE IF d > 9 THEN Result(bus, ErrDigitTooBig)
    ELSE IF d < 0 THEN Result(bus, PanicIndex)
    ELSE WriteWordData(bus, Uint8(pos * 2), digit[d])

WriteDigit(bus, pos, d) ==
    IF pos > 3 THEN Result(bus, ErrPositionOutOfRange)
    ELSE IF d > 9 THEN Result(bus, ErrDigitTooBig)
    ELSE LET pos1 == IF pos = 2 \/ pos = 3 THEN Uint8(pos + 1) ELSE pos
         IN  \* digit[d] is evaluated before the call: a negative index panics
             IF d < 0 THEN Result(bus, PanicIndex)
             ELSE WriteWordData(bus, Uint8(pos1 * 2), digit[d])

RECURSIVE SplitLoop(_, _, _)
SplitLoop(chars, i, out) ==
    IF i >= Len(chars) THEN [out |-> out, err |-> nil]
    ELSE LET a   == Atoi(chars[i + 1])
             idx == 4 - Len(chars) + i
         IN  IF a.err # nil THEN [out |-> <<>>, err |-> a.err]
             ELSE IF idx < 0 \/ idx > 3 THEN [out |-> <<>>, err |-> PanicIndex]
             ELSE SplitLoop(chars, i + 1, [out EXCEPT ![idx + 1] = a.val])

\* splitNumberIntoDigits that left-justifies
splitLeftJustified(n) ==
    IF n > 9999 THEN [out |-> <<>>, err |-> ErrNumberTooBig]
    ELSE LET chars == Split(Itoa(n))
             r     == SplitLoop(chars, 0, <<0, 0, 0, 0>>)
         IN  IF r.err # nil THEN r
             ELSE [out |-> [i \in 1..4 |->
                              IF i <= Len(chars) THEN r.out[4 - Len(chars) + i] ELSE 0],
                   err |-> nil]

\* splitNumberIntoDigits whose limit is off by one
splitOffByOne(n) ==
    IF n > 10000 THEN [out |-> <<>>, err |-> ErrNumberTooBig]
    ELSE SplitLoop(Split(Itoa(n)), 0, <<0, 0, 0, 0>>)

\* The loop of a splitNumberIntoDigits that picks the slot before it parses
\* the character
RECURSIVE SplitLoopIndexFirst(_, _, _)
SplitLoopIndexFirst(chars, i, out) ==
    IF i >= Len(chars) THEN [out |-> out, err |-> nil]
    ELSE LET a   == Atoi(chars[i + 1])
             idx == 4 - Len(chars) + i
         IN  IF idx < 0 \/ idx > 3 THEN [out |-> <<>>, err |-> PanicIndex]
             ELSE IF a.err # nil THEN [out |-> <<>>, err |-> a.err]
             ELSE SplitLoopIndexFirst(chars, i + 1, [out EXCEPT ![idx + 1] = a.val])

\* splitNumberIntoDigits that indexes the output before it parses
splitIndexesFirst(n) ==
    IF n > 9999 THEN [out |-> <<>>, err |-> ErrNumberTooBig]
    ELSE SplitLoopIndexFirst(Split(Itoa(n)), 0, <<0, 0, 0, 0>>)

splitNumberIntoDigits(n) ==
    IF n > 9999 THEN [out |-> <<>>, err |-> ErrNumberTooBig]
    ELSE SplitLoop(Split(Itoa(n)), 0, <<0, 0, 0, 0>>)

RECURSIVE WriteNumberLoop(_, _, _, _)
WriteNumberLoop(bus, digits, pos, foundDigit) ==
    IF pos >= Len(digits) THEN Result(bus, nil)
    ELSE LET d     == digits[pos + 1]
             found == foundDigit \/ d > 0
         IN  IF ~found THEN WriteNumberLoop(bus, digits, pos + 1, found)
             ELSE LET w == WriteDigit(bus, Uint8(pos), d)
                  IN  IF w.err # nil THEN w
                      ELSE WriteNumberLoop(w.bus, digits, pos + 1, found)

\* WriteNumber that clears the panel before it checks the number
WriteNumberClearsFirst(bus, n) ==
    LET c == Clear(bus)
        s == splitNumberIntoDigits(n)
    IN  IF c.err # nil THEN c
        ELSE IF s.err # nil THEN Result(c.bus, s.err)
        ELSE WriteNumberLoop(c.bus, s.out, 0, FALSE)

\* WriteNumber that blanks every zero, not only the leading ones
WriteNumberSkipsZeros(bus, n) ==
    LET s == splitNumberIntoDigits(n)
        RECURSIVE Loop(_, _)
        Loop(b, pos) ==
            IF pos >= Len(s.out) THEN Result(b, nil)
            ELSE IF s.out[pos + 1] = 0 THEN Loop(b, pos + 1)
            ELSE LET w == WriteDigit(b, Uint8(pos), s.out[pos + 1])
                 IN  IF w.err # nil THEN w ELSE Loop(w.bus, pos + 1)
    IN  IF s.err # nil THEN Result(bus, s.err)
        ELSE LET c == Clear(bus)
             IN  IF c.err # nil THEN c ELSE Loop(c.bus, 0)

\* WriteNumber that clears the panel again when a digit write fails
WriteNumberRollsBack(bus, n) ==
    LET s == splitNumberIntoDigits(n)
    IN  IF s.err # nil THEN Result(bus, s.err)
        ELSE LET c == Clear(bus)
             IN  IF c.err # nil THEN c
                 ELSE LET w == WriteNumberLoop(c.bus, s.out, 0, FALSE)
                      IN  IF w.err # nil
                          THEN Result(Clear([w.bus EXCEPT !.fault = NoFault]).bus, w.err)
                          ELSE w

\* WriteNumber that does not clear the panel first
WriteNumberNoClear(bus, n) ==
    LET s == splitNumberIntoDigits(n)
    IN  IF s.err # nil THEN Result(bus, s.err)
        ELSE WriteNumberLoop(bus, s.out, 0, FALSE)

\* WriteNumber that shows a zero in the last slot when no digit is nonzero
WriteNumberShowsZero(bus, n) ==
    LET s == splitNumberIntoDigits(n)
    IN  IF s.err # nil THEN Result(bus, s.err)
        ELSE LET c == Clear(bus)
             IN  IF c.err # nil THEN c
                 ELSE IF \A i \in 1..Len(s.out) : s.out[i] = 0
                      THEN WriteDigit(c.bus, 3, 0)
                      ELSE WriteNumberLoop(c.bus, s.out, 0, FALSE)

WriteNumber(bus, n) ==
    LET s == splitNumberIntoDigits(n)
    IN  IF s.err # nil THEN Result(bus, s.err)
        ELSE LET c == Clear(bus)
             IN  IF c.err # nil THEN c
                 ELSE WriteNumberLoop(c.bus, s.out, 0, FALSE)

\* Start that goes on after a failed oscillator write
StartIgnoresOscillator(bus) ==
    LET c == GetConnection(bus, ht16k33Address)
    IN  IF c.err # nil THEN c
        ELSE LET o == WriteByte(c.bus, BitOr(ht16k33RegSetup, ht16k33OscillatorOn))
                 r == ReadByte(o.bus)
             IN  IF r.err # nil THEN r
                 ELSE LET s == SetDisplay(r.bus, TRUE)
                      IN  IF s.err # nil THEN s ELSE SetBrightness(s.bus, 15)

Start(bus) ==
    LET c == GetConnection(bus, ht16k33Address)
    IN  IF c.err # nil THEN c
        ELSE LET o == WriteByte(c.bus, BitOr(ht16k33RegSetup, ht16k33OscillatorOn))
             IN  IF o.err # nil THEN o
                 ELSE LET r == ReadByte(o.bus)
                      IN  IF r.err # nil THEN r
                          ELSE LET s == SetDisplay(r.bus, TRUE)
                               IN  IF s.err # nil THEN s
                                   ELSE SetBrightness(s.bus, 15)

---------------------------------------------------------------------------
(* The inputs. *)

Faults(k) == {NoFault} \cup {[at |-> a, err |-> e] : a \in 1..k, e \in TransportErrors}

Rep(c, k) == [i \in 1..k |-> c]

Pattern3 == <<"1", "0", "0", "1", "1", "1", "1">>

\* every position, digit, number and brightness up to the bounds
Positions == 0..MaxPos
Digits == (-MaxNeg)..MaxDigit
Numbers == (-MaxNegNumber)..MaxNumber
Brightness == 0..255
BinaryStrings ==
    {Rep("1", k) : k \in 0..MaxBinLen}
    \cup {<<"1">> \o Rep("0", k) : k \in 0..MaxBinLen}
    \cup {Rep("0", k) \o Pattern3 : k \in 0..MaxBinLen}
    \cup {Rep("1", k) \o <<"F">> : k \in 0..MaxBinLen}
    \cup {Rep("1", 8) \o Rep("0", 8), Rep("F", 8), <<"1", "0", "2">>,
          <<"-", "1">>, <<"+", "1">>, <<"0", "b", "1">>, <<"1", "_", "1">>}

\* a few of each, for the runs that interleave the methods freely
SomePositions == {0, 2, 3, 4}
SomeDigits == {3, 10}
SomeNumbers == {0, 7, 10, 1234, 10000, MaxNumber}
SomeBrightness == {0, 15, 16, 255}
SomeStrings == {Rep("1", 4), Rep("0", 9) \o Pattern3, Rep("F", 8), Rep("1", 17)}

---------------------------------------------------------------------------
(* The state machine. *)

Blank == [r \in DisplayRAM |-> 0]

Init ==
    /\ regs = Blank
    /\ connection = "nil"
    /\ call = [op |-> "NewHT16K33Driver"]
    /\ ret = [err |-> nil]
    /\ log = <<>>

\* a call c that ran to result r
Commit(c, r) ==
    /\ call' = c
    /\ ret' = [err |-> r.err]
    /\ log' = r.bus.log
    /\ regs' = r.bus.regs

\* Start that keeps the connection of a failed attempt and goes on from the
\* oscillator write
DoStartKeepsConnection(f) ==
    IF call.op = "Start" /\ ret.err # nil /\ connection = "open"
    THEN LET b == Bus(regs, f)
             o == WriteByte(b, BitOr(ht16k33RegSetup, ht16k33OscillatorOn))
             r == IF o.err # nil THEN o
                  ELSE LET rd == ReadByte(o.bus)
                       IN  IF rd.err # nil THEN rd
                           ELSE LET sd == SetDisplay(rd.bus, TRUE)
                                IN  IF sd.err # nil THEN sd
                                    ELSE SetBrightness(sd.bus, 15)
         IN  Commit([op |-> "Start"], r) /\ UNCHANGED connection
    ELSE LET r == Start(Bus(regs, f))
         IN  /\ Commit([op |-> "Start"], r)
             /\ connection' = IF r.bus.log[1].err = nil THEN "open" ELSE "nil"

\* Start stores what GetConnection returned, also when it failed
DoStart(f) ==
    LET r == Start(Bus(regs, f))
    IN  /\ Commit([op |-> "Start"], r)
        /\ connection' = IF r.bus.log[1].err = nil THEN "open" ELSE "nil"

\* The other methods use h.connection: they are called once Start has
\* obtained it.
DoSetDisplay(on, f) ==
    /\ connection = "open"
    /\ Commit([op |-> "SetDisplay", on |-> on], SetDisplay(Bus(regs, f), on))
    /\ UNCHANGED connection

DoSetBrightness(b, f) ==
    /\ connection = "open"
    /\ Commit([op |-> "SetBrightness", b |-> b], SetBrightness(Bus(regs, f), b))
    /\ UNCHANGED connection

DoColon(on, f) ==
    /\ connection = "open"
    /\ Commit([op |-> "Colon", on |-> on], Colon(Bus(regs, f), on))
    /\ UNCHANGED connection

DoClear(f) ==
    /\ connection = "open"
    /\ Commit([op |-> "Clear"], Clear(Bus(regs, f)))
    /\ UNCHANGED connection

DoWriteBinary(pos, b, f) ==
    /\ connection = "open"
    /\ Commit([op |-> "WriteBinary", pos |-> pos, b |-> b],
              WriteBinary(Bus(regs, f), pos, b))
    /\ UNCHANGED connection

DoWriteDigit(pos, d, f) ==
    /\ connection = "open"
    /\ Commit([op |-> "WriteDigit", pos |-> pos, d |-> d],
              WriteDigit(Bus(regs, f), pos, d))
    /\ UNCHANGED connection

DoWriteNumber(n, f) ==
    /\ connection = "open"
    /\ Commit([op |-> "WriteNumber", n |-> n], WriteNumber(Bus(regs, f), n))
    /\ UNCHANGED connection

\* the package's helper, called on its own: no driver, no bus
DoSplit(n) ==
    /\ call' = [op |-> "splitNumberIntoDigits", n |-> n]
    /\ ret' = splitNumberIntoDigits(n)
    /\ log' = <<>>
    /\ UNCHANGED <<regs, connection>>

\* The methods in any order, on a few arguments each.
Next ==
    \/ \E f \in Faults(MaxFail) : DoStart(f)
    \/ \E on \in BOOLEAN, f \in Faults(1) : DoSetDisplay(on, f)
    \/ \E b \in SomeBrightness, f \in Faults(1) : DoSetBrightness(b, f)
    \/ \E on \in BOOLEAN, f \in Faults(1) : DoColon(on, f)
    \/ \E f \in Faults(MaxFail) : DoClear(f)
    \/ \E pos \in SomePositions, b \in SomeStrings, f \in Faults(1) :
          DoWriteBinary(pos, b, f)
    \/ \E pos \in SomePositions, d \in SomeDigits, f \in Faults(1) :
          DoWriteDigit(pos, d, f)
    \/ \E n \in SomeNumbers, f \in Faults(MaxFail) : DoWriteNumber(n, f)

Spec == Init /\ [][Next]_vars

\* Every argument up to the bounds, each call made on a panel that Start or
\* Clear has just left blank.
Fresh ==
    /\ connection = "open"
    /\ call.op \in {"Start", "Clear"}
    /\ ret.err = nil
    /\ regs = Blank

NextCall ==
    \/ /\ call.op \in {"NewHT16K33Driver", "Start"}
       /\ \E f \in Faults(MaxFail) : DoStart(f)
    \/ DoClear(NoFault)
    \/ Fresh /\ \E on \in BOOLEAN, f \in Faults(1) : DoSetDisplay(on, f)
    \/ Fresh /\ \E b \in Brightness, f \in Faults(1) : DoSetBrightness(b, f)
    \/ Fresh /\ \E on \in BOOLEAN, f \in Faults(1) : DoColon(on, f)
    \/ Fresh /\ \E pos \in Positions, b \in BinaryStrings, f \in Faults(1) :
                  DoWriteBinary(pos, b, f)
    \/ Fresh /\ \E pos \in Positions, d \in Digits, f \in Faults(1) :
                  DoWriteDigit(pos, d, f)
    \/ Fresh /\ \E n \in Numbers, f \in Faults(MaxFail) : DoWriteNumber(n, f)
    \/ Fresh /\ \E n \in Numbers : DoSplit(n)

SpecCall == Init /\ [][NextCall]_vars

---------------------------------------------------------------------------
(* What the specification says, stated without the driver's definitions.   *)

\* the register of a position, as the register protocol's table gives it
Mapped(p) == IF p \in {0, 1} THEN p * 2 ELSE (p + 1) * 2

\* the segment patterns, as the register protocol's table gives them
SegmentTable == <<3135, 6, 219, 79, 230, 237, 253, 7, 255, 239>>

\* a word write the transport accepted
WordWrite(reg, val) ==
    [kind |-> "WriteWordData", reg |-> reg, val |-> val, err |-> nil]

\* the transcript with the transport's answers left out
Wire(l) == [i \in 1..Len(l) |-> [l[i] EXCEPT !.err = nil]]

IsBinary(s) == Len(s) > 0 /\ \A i \in 1..Len(s) : s[i] \in {"0", "1"}

RECURSIVE Pow(_, _)
Pow(b, e) == IF e = 0 THEN 1 ELSE b * Pow(b, e - 1)

\* the value of a string of binary digits, bit by bit from the right
BinValue(s) ==
    LET RECURSIVE Sum(_)
        Sum(i) == IF i > Len(s) THEN 0
                  ELSE (IF s[i] = "1" THEN Pow(2, Len(s) - i) ELSE 0) + Sum(i + 1)
    IN  Sum(1)

\* the number of bits from the first 1 on
SignificantBits(s) ==
    IF \E i \in 1..Len(s) : s[i] = "1"
    THEN Len(s) + 1 - (CHOOSE i \in 1..Len(s) :
                          s[i] = "1" /\ \A j \in 1..(i - 1) : s[j] # "1")
    ELSE 0

\* the decimal digit of n in slot i (0 is the thousands)
DecimalDigit(n, i) == (n \div Pow(10, 3 - i)) % 10

\* the number of decimal digits of n
DecimalLength(n) == IF n < 10 THEN 1 ELSE IF n < 100 THEN 2 ELSE IF n < 1000 THEN 3 ELSE 4

ValidBinaryCall ==
    /\ call.pos \in 0..3
    /\ IsBinary(call.b)
    /\ SignificantBits(call.b) <= 16

\* C1: for a position p in 0..3 and a valid value, the one word write of
\* WriteDigit(p, .) and of WriteBinary(p, .) targets offset p*2 for p in
\* {0,1} and (p+1)*2 for p in {2,3}; neither ever writes offset 4, the colon.
ColonSkipMapping ==
    call.op \in {"WriteDigit", "WriteBinary"} =>
        /\ \A i \in 1..Len(log) :
              /\ log[i].kind = "WriteWordData"
              /\ log[i].reg \in {0, 2, 6, 8}
              /\ log[i].reg # 4
        /\ (call.op = "WriteDigit" /\ call.pos \in 0..3 /\ call.d \in 0..9) =>
              (Len(log) = 1 /\ log[1].reg = Mapped(call.pos))
        /\ (call.op = "WriteBinary" /\ ValidBinaryCall) =>
              (Len(log) = 1 /\ log[1].reg = Mapped(call.pos))

ColonSkipWitness ==
    /\ call.op = "WriteBinary"
    /\ call.pos = 2
    /\ Len(log) = 1
    /\ log[1].reg = 6
    /\ regs[6] = 65535

\* C2: for p in 0..3 and d in 0..9, WriteDigit(p, d) makes exactly one bus
\* transaction: a word write at p's register of the segment pattern of d.
WriteDigitWritesPattern ==
    (call.op = "WriteDigit" /\ call.pos \in 0..3 /\ call.d \in 0..9) =>
        /\ Len(log) = 1
        /\ Wire(log) = <<WordWrite(Mapped(call.pos), SegmentTable[call.d + 1])>>
        /\ ret.err = log[1].err
        /\ ret.err = nil => regs[Mapped(call.pos)] = SegmentTable[call.d + 1]

WriteDigitWitness ==
    /\ call = [op |-> "WriteDigit", pos |-> 3, d |-> 9]
    /\ log = <<WordWrite(8, 239)>>
    /\ ret.err = nil

\* C3: WriteDigit(p, d) returns the position error for p > 3 and the digit
\* error for d > 9 (p valid), makes no bus write, and the chip registers
\* are as they were.
WriteDigitRejects ==
    [][(call'.op = "WriteDigit" /\ (call'.pos > 3 \/ call'.d > 9)) =>
          /\ ret'.err = IF call'.pos > 3 THEN ErrPositionOutOfRange
                        ELSE ErrDigitTooBig
          /\ log' = <<>>
          /\ regs' = regs]_vars

WriteDigitRejectsWitness ==
    /\ call = [op |-> "WriteDigit", pos |-> 1, d |-> 10]
    /\ ret.err = ErrDigitTooBig
    /\ log = <<>>

\* the five zero writes of Clear
ClearWrites == [j \in 1..5 |-> WordWrite(2 * (j - 1), 0)]

\* the writes the specification gives WriteNumber(n) for n of k digits:
\* Clear, then the digits of slots 4-k..3 in ascending order
NumberWrites(n) ==
    LET k == DecimalLength(n)
    IN  [j \in 1..(5 + k) |->
            IF j <= 5 THEN ClearWrites[j]
            ELSE LET slot == (4 - k) + (j - 6)
                 IN  WordWrite(Mapped(slot), SegmentTable[DecimalDigit(n, slot) + 1])]

\* C4: for n in 1..9999 with k decimal digits, a WriteNumber(n) whose bus
\* transactions all succeed issues exactly 5+k word writes: the five zero
\* writes of Clear at offsets 0, 2, 4, 6, 8, then one digit write for each of
\* the slots 4-k..3 in ascending order (zeros after the first digit
\* included), and none for the leading zero slots.
WriteNumberSequence ==
    (call.op = "WriteNumber" /\ call.n \in 1..9999 /\ ret.err = nil) =>
        /\ Len(log) = 5 + DecimalLength(call.n)
        /\ log = NumberWrites(call.n)

WriteNumberSequenceWitness ==
    /\ call = [op |-> "WriteNumber", n |-> 1200]
    /\ ret.err = nil
    /\ Len(log) = 9
    /\ log[9] = WordWrite(8, 3135)

WriteNumberTooBig ==
    [][(call'.op = "WriteNumber" /\ call'.n > 9999) =>
          /\ ret'.err = ErrNumberTooBig
          /\ log' = <<>>
          /\ regs' = regs]_vars

WriteNumberTooBigWitness ==
    /\ call = [op |-> "WriteNumber", n |-> 10000]
    /\ ret.err = ErrNumberTooBig
    /\ log = <<>>
    /\ regs[8] # 0

\* the transport calls of a whole Start, as the specification orders them:
\* the connection, 0x21, the dummy read, 0x81, 0xEF
StartSequence ==
    << [kind |-> "GetConnection", val |-> 112, err |-> nil],
       [kind |-> "WriteByte", val |-> 33, err |-> nil],
       [kind |-> "ReadByte", err |-> nil],
       [kind |-> "WriteByte", val |-> 129, err |-> nil],
       [kind |-> "WriteByte", val |-> 239, err |-> nil] >>

\* C7: Start obtains the connection and then writes 0x21, reads one byte,
\* writes 0x81 and writes 0xEF, in this order.  When one of these fails Start
\* returns that failure unmodified and attempts none of the later steps: a
\* failed oscillator write means no read and no later write.
StartOrder ==
    call.op = "Start" =>
        /\ Len(log) \in 1..5
        /\ Wire(log) = SubSeq(StartSequence, 1, Len(log))
        /\ \A i \in 1..(Len(log) - 1) : log[i].err = nil
        /\ ret.err = log[Len(log)].err
        /\ ret.err = nil => Len(log) = 5

StartOrderWitness ==
    /\ call.op = "Start"
    /\ Len(log) = 2
    /\ log[2].kind = "WriteByte" /\ log[2].val = 33
    /\ log[2].err = "bus: timeout"
    /\ ret.err = "bus: timeout"

\* C8: for every b in 0..255, SetBrightness(b) never rejects the value and
\* makes exactly one single-byte write, of 0xE0 | min(b, 15): 16 and 255 put
\* the byte of 15 on the wire, and the byte always lies in 0xE0..0xEF.
BrightnessClamp ==
    call.op = "SetBrightness" =>
        /\ Len(log) = 1
        /\ log[1].kind = "WriteByte"
        /\ log[1].val = 224 + (IF call.b < 15 THEN call.b ELSE 15)
        /\ log[1].val \in 224..239
        /\ ret.err = log[1].err

BrightnessClampWitness ==
    /\ call = [op |-> "SetBrightness", b |-> 255]
    /\ log = <<[kind |-> "WriteByte", val |-> 239, err |-> nil]>>
    /\ ret.err = nil

SplitCorrect ==
    call.op = "splitNumberIntoDigits" =>
        /\ call.n \in 0..9999 =>
              /\ ret.err = nil
              /\ Len(ret.out) = 4
              /\ \A i \in 0..3 : ret.out[i + 1] = DecimalDigit(call.n, i)
        /\ call.n > 9999 => (ret.err = ErrNumberTooBig /\ ret.out = <<>>)

SplitWitness ==
    /\ call = [op |-> "splitNumberIntoDigits", n |-> 1234]
    /\ ret = [out |-> <<1, 2, 3, 4>>, err |-> nil]

\* C11: for a valid position p and any digit d outside 0..9, every negative
\* d included, WriteDigit(p, d) returns the digit-too-large error and makes
\* no bus write; it does not crash or index the pattern table out of bounds.
WriteDigitRejectsOutside ==
    (call.op = "WriteDigit" /\ call.pos \in 0..3 /\ call.d \notin 0..9) =>
        /\ ret.err = ErrDigitTooBig
        /\ ret.err # PanicIndex
        /\ log = <<>>

\* the chip RAM after the word writes of a transcript that the transport
\* accepted, starting from RAM r
RECURSIVE Replay(_, _)
Replay(r, l) ==
    IF l = <<>> THEN r
    ELSE LET e == Head(l)
         IN  Replay(IF e.kind = "WriteWordData" /\ e.err = nil /\ e.reg \in DOMAIN r
                    THEN [r EXCEPT ![e.reg] = e.val] ELSE r,
                    Tail(l))

BusMethods ==
    {"Start", "SetDisplay", "SetBrightness", "Colon", "Clear",
     "WriteBinary", "WriteDigit", "WriteNumber"}

\* C12: in every method a failed bus transaction is the last one attempted
\* (no retry, nothing after it), its error is exactly the error returned, and
\* the writes issued before it stay in effect (no rollback): a WriteNumber
\* whose j-th transaction fails has attempted exactly j transactions and
\* leaves the panel partially written.
TransportFailurePropagates ==
    [][call'.op \in BusMethods =>
          /\ \A i \in 1..Len(log') :
                log'[i].err # nil => (i = Len(log') /\ ret'.err = log'[i].err)
          /\ regs' = Replay(regs, log')]_vars

TransportFailureWitness ==
    /\ call = [op |-> "WriteNumber", n |-> 1234]
    /\ Len(log) = 7
    /\ log[6] = WordWrite(0, 6)
    /\ log[7].err = "bus: i/o error"
    /\ ret.err = "bus: i/o error"
    /\ regs[0] = 6 /\ regs[2] = 0 /\ regs[6] = 0 /\ regs[8] = 0

\* C13: Clear issues exactly five word writes of 0x0000, at offsets 0, 2, 4,
\* 6, 8 in ascending order, so that when all succeed the four digit
\* registers and the colon register are zero whatever they held; when one of
\* the writes fails, Clear returns that error and writes no later offset.
ClearContract ==
    call.op = "Clear" =>
        /\ Len(log) \in 1..5
        /\ Wire(log) = SubSeq(ClearWrites, 1, Len(log))
        /\ \A i \in 1..(Len(log) - 1) : log[i].err = nil
        /\ ret.err = log[Len(log)].err
        /\ ret.err = nil =>
              (Len(log) = 5 /\ \A r \in {0, 2, 4, 6, 8} : regs[r] = 0)

\* a Clear that failed at its third write, on a panel that showed 1234
ClearWitness ==
    /\ call.op = "Clear"
    /\ Len(log) = 3
    /\ ret.err = "bus: timeout"
    /\ regs[0] = 0 /\ regs[2] = 0 /\ regs[6] = 79 /\ regs[8] = 230

\* C14: Colon(on) issues exactly one word write, to sub-register 0x04, of
\* 0x0002 when on is true and 0x0000 when it is false, and writes no digit
\* register.
ColonContract ==
    [][call'.op = "Colon" =>
          /\ Wire(log') = <<WordWrite(4, IF call'.on THEN 2 ELSE 0)>>
          /\ ret'.err = log'[1].err
          /\ ret'.err = nil => regs'[4] = (IF call'.on THEN 2 ELSE 0)
          /\ \A r \in DisplayRAM \ {4} : regs'[r] = regs[r]]_vars

ColonWitness ==
    /\ call = [op |-> "Colon", on |-> TRUE]
    /\ log = <<WordWrite(4, 2)>>
    /\ regs[4] = 2
    /\ regs[2] = 219 /\ regs[6] = 79

\* what the panel shows of n in slot i: blank before the first digit
Shown(n, i) ==
    IF i >= 4 - DecimalLength(n) THEN SegmentTable[DecimalDigit(n, i) + 1] ELSE 0

\* C15: whatever the registers held before, a successful WriteNumber(n) with
\* n in 1..9999 leaves each digit register (offsets 0, 2, 6, 8) equal to the
\* pattern of its decimal digit from the first nonzero digit on and to
\* 0x0000 in the leading slots: no digit of an earlier number remains.
WriteNumberNoStaleDigits ==
    (call.op = "WriteNumber" /\ call.n \in 1..9999 /\ ret.err = nil) =>
        \A i \in 0..3 : regs[Mapped(i)] = Shown(call.n, i)

WriteNumberNoStaleWitness ==
    /\ call = [op |-> "WriteNumber", n |-> 10]
    /\ ret.err = nil
    /\ regs[0] = 0 /\ regs[2] = 0 /\ regs[6] = 6 /\ regs[8] = 3135

\* C16: Start keeps no record of an earlier attempt: a Start called after a
\* Start that failed, at whatever step, acquires the connection again and
\* repeats the whole sequence from the oscillator write, never resuming at
\* the step that failed; when every step then succeeds it returns no error.
StartRepeatsWholeSequence ==
    [][(call.op = "Start" /\ ret.err # nil /\ call'.op = "Start") =>
          /\ Len(log') \in 1..5
          /\ Wire(log') = SubSeq(StartSequence, 1, Len(log'))
          /\ (\A i \in 1..Len(log') : log'[i].err = nil) =>
                (Len(log') = 5 /\ ret'.err = nil)
          /\ ret'.err = nil => connection' = "open"]_vars

\* a Start that ran to the end on a panel that already shows digits: it is
\* not the first call on the driver
StartRepeatsWitness ==
    /\ call.op = "Start"
    /\ ret.err = nil
    /\ Wire(log) = StartSequence
    /\ regs[8] = 230

\* C17: WriteBinary rejects a binary string that is too short:
\* WriteBinary(0, "1111") returns an error and no word is written to the
\* chip (the 8-character "11111111" is accepted).
WriteBinaryRejectsShort ==
    (call.op = "WriteBinary" /\ call.pos = 0 /\ call.b = <<"1", "1", "1", "1">>) =>
        /\ ret.err # nil
        /\ log = <<>>

\* C18: WriteNumber(0) writes no digit at all: its only transport calls are
\* the five zero writes of Clear, and when the transport accepts them it
\* succeeds and leaves every display register zero, the rightmost slot
\* included (no '0' is shown).
WriteNumberZeroBlank ==
    (call.op = "WriteNumber" /\ call.n = 0) =>
        /\ Len(log) \in 1..5
        /\ Wire(log) = SubSeq(ClearWrites, 1, Len(log))
        /\ (\A i \in 1..Len(log) : log[i].err = nil) =>
              /\ ret.err = nil
              /\ Len(log) = 5
              /\ \A r \in DisplayRAM : regs[r] = 0

WriteNumberZeroWitness ==
    /\ call = [op |-> "WriteNumber", n |-> 0]
    /\ ret.err = nil
    /\ Wire(log) = ClearWrites
    /\ regs = Blank

\* C19: for every negative n, splitNumberIntoDigits(n) returns the parse
\* error (not the number-too-big error) and never indexes the output out of
\* bounds, and WriteNumber(n) returns that error without any transport call.
NegativeNumberRejected ==
    /\ (call.op = "splitNumberIntoDigits" /\ call.n < 0) =>
          /\ ret.err = ErrSyntax
          /\ ret.err \notin {nil, ErrNumberTooBig, PanicIndex}
          /\ ret.out = <<>>
    /\ (call.op = "WriteNumber" /\ call.n < 0) =>
          /\ ret.err = ErrSyntax
          /\ ret.err \notin {nil, ErrNumberTooBig, PanicIndex}
          /\ log = <<>>
          /\ regs = Blank

NegativeNumberWitness ==
    /\ call = [op |-> "WriteNumber", n |-> -1000]
    /\ ret.err = ErrSyntax
    /\ log = <<>>

\* C20: WriteNumber turns the colon off: whatever came before (a successful
\* Colon(true) included), a successful WriteNumber(n), n in 0..9999, leaves
\* the colon register (offset 4) zero, whereas WriteDigit, WriteBinary,
\* SetDisplay and SetBrightness leave the colon register as it was.
WriteNumberClearsColon ==
    [][/\ (call'.op = "WriteNumber" /\ call'.n \in 0..9999 /\ ret'.err = nil) =>
              regs'[4] = 0
       /\ call'.op \in {"WriteDigit", "WriteBinary", "SetDisplay", "SetBrightness"} =>
              regs'[4] = regs[4]]_vars

\* the colon is lit (only Colon(true) writes 2 at offset 4) and a digit has
\* been written since
WriteNumberClearsColonWitness ==
    /\ call = [op |-> "WriteDigit", pos |-> 2, d |-> 3]
    /\ ret.err = nil
    /\ regs[4] = 2
    /\ regs[6] = 79

\* C21: whatever the operation and its arguments, every word write the
\* driver hands to the transport targets offset 0, 2, 4, 6 or 8, and every
\* command byte it hands to the transport is 0x21, 0x80, 0x81 or a byte in
\* 0xE0..0xEF (writes the transport refuses included).
WireAlphabet ==
    \A i \in 1..Len(log) :
        /\ log[i].kind = "WriteWordData" => log[i].reg \in {0, 2, 4, 6, 8}
        /\ log[i].kind = "WriteByte" =>
              log[i].val \in {33, 128, 129} \cup (224..239)

WireAlphabetWitness ==
    /\ call.op = "SetBrightness"
    /\ call.b = 255
    /\ Len(log) = 1
    /\ log[1].kind = "WriteByte"
    /\ log[1].val = 239

====
